---- MODULE Spec2Model ----
(***************************************************************************)
(* Model of the test-scenario runner (test_scenarios_cpp): the scenario    *)
(* tree with its dotted-path lookup, the test context (run / list) and the *)
(* command-line layer (argument parsing and dispatch), the string          *)
(* utilities and the tracing subscriber.                                   *)
(*                                                                         *)
(* A std::string is a sequence of one-character strings.  An               *)
(* std::optional<T> is a sequence of length 0 (empty) or 1 (engaged).      *)
(* Objects held by shared_ptr live in arenas (sequences); a pointer is the *)
(* index of the object in its arena.                                       *)
(***************************************************************************)
EXTENDS Integers, Sequences, FiniteSets, TLC

VARIABLES
    scenarios,    \* arena of ScenarioStub objects: [name_]
    groups,       \* arena of ScenarioGroupImpl objects: [name_, scenarios_, groups_]
    root_group_,  \* TestContext::root_group_ of the context last constructed (optional)
    call,         \* the last call made: [op, ...arguments]
    ret,          \* what the last call returned or threw
    executed,     \* the Scenario::run invocations made by the last call, in order
    ctx_calls,    \* the TestContext member calls made by the last run_cli_app, in order
    cout,         \* lines the last call wrote to std::cout
    cerr,         \* lines the last call wrote to std::cerr
    threads,      \* the running threads: each one's position and local variables
    subscriber,   \* the static std::unique_ptr<Subscriber> of global_subscriber (optional)
    subscribers,  \* arena of Subscriber objects: [max_level_, thread_ids_, alive]
    stdout        \* the standard output stream: [buffer, written], sequences of characters

vars == <<scenarios, groups, root_group_, call, ret, executed, ctx_calls, cout, cerr,
          threads, subscriber, subscribers, stdout>>

----------------------------------------------------------------------------
(* Bounds of the model.                                                    *)

\* Number of ScenarioGroupImpl objects constructed.
MaxGroups == 3
\* Number of ScenarioStub objects constructed.
MaxScenarios == 2

\* The names given to scenarios and groups (the constructors accept any string,
\* the empty one included).
Names == {<<>>, <<"a">>}

\* std::optional
Nothing == <<>>
Some(x) == <<x>>

----------------------------------------------------------------------------
(* string_utils                                                            *)

\* std::string::npos
npos == -1

\* std::string::find(delimiter, pos) with 0-based positions: the first position
\* p >= pos at which delimiter occurs in str, npos when there is none.
RECURSIVE str_find(_, _, _)
str_find(str, delimiter, pos) ==
    IF pos + Len(delimiter) > Len(str) THEN npos
    ELSE IF SubSeq(str, pos + 1, pos + Len(delimiter)) = delimiter THEN pos
    ELSE str_find(str, delimiter, pos + 1)

\* std::string::substr(pos, count) with a 0-based position; count npos - pos
\* (as produced by the subtraction at the end of the string) reaches to the end.
str_substr(str, pos, count) ==
    IF count < 0 THEN SubSeq(str, pos + 1, Len(str))
    ELSE SubSeq(str, pos + 1, pos + count)

\* The loop of string_utils::split, from scan position pos_begin.
RECURSIVE split_loop(_, _, _)
split_loop(str, delimiter, pos_begin) ==
    LET pos_end == str_find(str, delimiter, pos_begin)
        part == str_substr(str, pos_begin, pos_end - pos_begin)
    IN  IF pos_end = npos THEN <<part>>
        ELSE <<part>> \o split_loop(str, delimiter, pos_end + Len(delimiter))

split(str, delimiter) == split_loop(str, delimiter, 0)

\* string_utils::join: the parts are streamed in order with "." between
\* consecutive parts (the delimiter parameter is not used by the code).
RECURSIVE join_loop(_, _)
join_loop(parts, i) ==
    IF i > Len(parts) THEN <<>>
    ELSE parts[i] \o (IF i < Len(parts) THEN <<".">> ELSE <<>>) \o join_loop(parts, i + 1)

join(parts, delimiter) == join_loop(parts, 1)

----------------------------------------------------------------------------
(* scenario.cpp                                                            *)

GroupIds == 1..Len(groups)
ScenarioIds == 1..Len(scenarios)

RECURSIVE scan_scenarios(_, _, _), scan_groups(_, _, _), find_scenario(_, _)

\* Variant: a scenario matches when the name asked for is a prefix of its name.
scan_scenarios_prefix(g, name, i) ==
    IF i > Len(groups[g].scenarios_) THEN Nothing
    ELSE LET n == scenarios[groups[g].scenarios_[i]].name_
         IN  IF Len(name) <= Len(n) /\ SubSeq(n, 1, Len(name)) = name
             THEN Some(groups[g].scenarios_[i])
             ELSE scan_scenarios(g, name, i + 1)

\* for (auto&& scenario : scenarios_) if (scenario->name() == name) return {scenario};
scan_scenarios(g, name, i) ==
    IF i > Len(groups[g].scenarios_) THEN Nothing
    ELSE IF scenarios[groups[g].scenarios_[i]].name_ = name
         THEN Some(groups[g].scenarios_[i])
         ELSE scan_scenarios(g, name, i + 1)

\* Variant: the last subgroup with the name wins (no return on the first match).
scan_groups_last(g, first, i) ==
    IF i > Len(groups[g].groups_) THEN Nothing
    ELSE LET later == scan_groups(g, first, i + 1)
         IN  IF later # Nothing THEN later
             ELSE IF groups[groups[g].groups_[i]].name_ = first
                  THEN Some(groups[g].groups_[i])
                  ELSE Nothing

\* for (auto&& group : groups_) if (group->name() == split[0]) ...: the first
\* subgroup with that name, as an optional.
scan_groups(g, first, i) ==
    IF i > Len(groups[g].groups_) THEN Nothing
    ELSE IF groups[groups[g].groups_[i]].name_ = first
         THEN Some(groups[g].groups_[i])
         ELSE scan_groups(g, first, i + 1)

\* Variant: when no subgroup carries the first segment, the group's own
\* scenarios are searched for the last segment.
find_scenario_fallback(g, name) ==
    LET sp == split(name, <<".">>)
    IN  IF Len(sp) = 1 THEN scan_scenarios(g, name, 1)
        ELSE LET group == scan_groups(g, sp[1], 1)
             IN  IF group = Nothing THEN scan_scenarios(g, sp[Len(sp)], 1)
                 ELSE find_scenario(group[1], join(Tail(sp), <<".">>))

\* Variant: a single-segment name that matches no scenario of the group is
\* looked up in its subgroups, in order.
find_scenario_deep(g, name) ==
    LET sp == split(name, <<".">>)
    IN  IF Len(sp) = 1 THEN
            LET own == scan_scenarios(g, name, 1)
                hits == {i \in DOMAIN groups[g].groups_ :
                            find_scenario(groups[g].groups_[i], name) # Nothing}
            IN  IF own # Nothing THEN own
                ELSE IF hits = {} THEN Nothing
                ELSE find_scenario(groups[g].groups_[CHOOSE i \in hits : \A j \in hits : i <= j], name)
        ELSE LET group == scan_groups(g, sp[1], 1)
             IN  IF group = Nothing THEN Nothing
                 ELSE find_scenario(group[1], join(Tail(sp), <<".">>))

\* ScenarioGroupImpl::find_scenario
find_scenario(g, name) ==
    LET sp == split(name, <<".">>)
    IN  IF Len(sp) = 1 THEN scan_scenarios(g, name, 1)
        ELSE LET group == scan_groups(g, sp[1], 1)
             IN  IF group = Nothing THEN Nothing
                 ELSE find_scenario(group[1], join(Tail(sp), <<".">>))


----------------------------------------------------------------------------
(* test_context.cpp                                                        *)

\* Variant: the prefix is dropped when a name is qualified.
join_name_unqualified(left, right) == right

\* join_name: left "." right, or right alone when left is empty
join_name(left, right) ==
    IF left # <<>> THEN left \o <<".">> \o right ELSE right

\* list_scenarios_recursive: first loop, over the subgroups from index i
\* second loop, over the group's own scenarios from index i
RECURSIVE list_scenarios_recursive(_, _), list_groups_loop(_, _, _), list_scenarios_loop(_, _, _)
list_groups_loop(g, prefix, i) ==
    IF i > Len(groups[g].groups_) THEN <<>>
    ELSE LET group == groups[g].groups_[i]
             new_prefix == join_name(prefix, groups[group].name_)
         IN  list_scenarios_recursive(group, new_prefix) \o list_groups_loop(g, prefix, i + 1)

list_scenarios_loop(g, prefix, i) ==
    IF i > Len(groups[g].scenarios_) THEN <<>>
    ELSE <<join_name(prefix, scenarios[groups[g].scenarios_[i]].name_)>>
         \o list_scenarios_loop(g, prefix, i + 1)

\* Variant: the group's own scenarios are listed before those of its subgroups.
list_scenarios_own_first(g, prefix) ==
    list_scenarios_loop(g, prefix, 1) \o list_groups_loop(g, prefix, 1)

list_scenarios_recursive(g, prefix) ==
    list_groups_loop(g, prefix, 1) \o list_scenarios_loop(g, prefix, 1)

\* TestContext::list_scenarios, on the context wrapping group root
list_scenarios(root) == list_scenarios_recursive(root, <<>>)

\* What a call returns or throws.  An exception carries what(), a sequence of
\* the pieces streamed into the message.
Returns(value) == [kind |-> "ok", what |-> <<>>, value |-> value]
Throws(what) == [kind |-> "error", what |-> what, value |-> <<>>]
NoRet == [kind |-> "none", what |-> <<>>, value |-> <<>>]

StrOk == <<"o", "k">>
StrError == <<"e", "r", "r", "o", "r">>

\* ScenarioStub::run of the tests (tests/common.hpp): succeeds on "ok", throws
\* "Requested error" on "error" and "Unknown value" on anything else.  The stub
\* takes a plain string there; Scenario::run takes an optional one, and for an
\* absent input the tests of TestContext::run expect "Missing input".
ScenarioStub_run(input) ==
    IF input = Nothing THEN Throws(<<"Missing input">>)
    ELSE IF input[1] = StrOk THEN Returns(<<>>)
    ELSE IF input[1] = StrError THEN Throws(<<"Requested error">>)
    ELSE Throws(<<"Unknown value">>)

\* Variant: the not-found message does not carry the name asked for.
TestContext_run_unnamed(root, name, input) ==
    LET scenario == find_scenario(root, name)
    IN  IF scenario = Nothing
        THEN [ret |-> Throws(<<"Scenario ">> \o <<" not found">>),
              executed |-> <<>>]
        ELSE [ret |-> ScenarioStub_run(input),
              executed |-> <<[scenario |-> scenario[1], input |-> input]>>]

\* Variant: a failure of the scenario is caught and the scenario is run again.
TestContext_run_retry(root, name, input) ==
    LET scenario == find_scenario(root, name)
        once == <<[scenario |-> scenario[1], input |-> input]>>
    IN  IF scenario = Nothing
        THEN [ret |-> Throws(<<"Scenario ">> \o name \o <<" not found">>),
              executed |-> <<>>]
        ELSE IF ScenarioStub_run(input).kind = "ok"
             THEN [ret |-> ScenarioStub_run(input), executed |-> once]
             ELSE [ret |-> ScenarioStub_run(input), executed |-> once \o once]

\* TestContext::run: what it returns or throws, and the scenario runs it makes
TestContext_run(root, name, input) ==
    LET scenario == find_scenario(root, name)
    IN  IF scenario = Nothing
        THEN [ret |-> Throws(<<"Scenario ">> \o name \o <<" not found">>),
              executed |-> <<>>]
        ELSE [ret |-> ScenarioStub_run(input),
              executed |-> <<[scenario |-> scenario[1], input |-> input]>>]

----------------------------------------------------------------------------
(* cli.cpp                                                                 *)

ArgN == <<"-", "n">>
ArgName == <<"-", "-", "n", "a", "m", "e">>
ArgI == <<"-", "i">>
ArgInput == <<"-", "-", "i", "n", "p", "u", "t">>
ArgL == <<"-", "l">>
ArgListScenarios == <<"-", "-", "l", "i", "s", "t", "-", "s", "c", "e", "n", "a", "r", "i", "o", "s">>
ArgH == <<"-", "h">>
ArgHelp == <<"-", "-", "h", "e", "l", "p">>

\* CliArguments cli_arguments{}
DefaultCliArguments ==
    [name |-> Nothing, input |-> Nothing, list_scenarios |-> FALSE, help |-> FALSE]

RECURSIVE parse_loop(_, _, _)

\* Variant: the help flag ends the parsing, the tokens after it are not read.
parse_loop_help_stops(raw_arguments, args_it, cli_arguments) ==
    LET it == args_it + 1
        arg == raw_arguments[it + 1]
        value == raw_arguments[it + 2]
    IN  IF ~(it < Len(raw_arguments)) THEN Returns(cli_arguments)
        ELSE IF arg = ArgN \/ arg = ArgName THEN
            IF it + 1 # Len(raw_arguments)
            THEN parse_loop(raw_arguments, it + 1, [cli_arguments EXCEPT !.name = Some(value)])
            ELSE Throws(<<"Failed to read name parameter">>)
        ELSE IF arg = ArgI \/ arg = ArgInput THEN
            IF it + 1 # Len(raw_arguments)
            THEN parse_loop(raw_arguments, it + 1, [cli_arguments EXCEPT !.input = Some(value)])
            ELSE Throws(<<"Failed to read input parameter">>)
        ELSE IF arg = ArgL \/ arg = ArgListScenarios THEN
            parse_loop(raw_arguments, it, [cli_arguments EXCEPT !.list_scenarios = TRUE])
        ELSE IF arg = ArgH \/ arg = ArgHelp THEN
            Returns([cli_arguments EXCEPT !.help = TRUE])
        ELSE Throws(<<"Unknown argument provided">>)

\* The while loop of parse_cli_arguments.  args_it is the 0-based position of
\* the iterator before the ++ of the loop condition; end() is Len(raw_arguments).
parse_loop(raw_arguments, args_it, cli_arguments) ==
    LET it == args_it + 1
        arg == raw_arguments[it + 1]
        value == raw_arguments[it + 2]
    IN  IF ~(it < Len(raw_arguments)) THEN Returns(cli_arguments)
        ELSE IF arg = ArgN \/ arg = ArgName THEN
            IF it + 1 # Len(raw_arguments)
            THEN parse_loop(raw_arguments, it + 1, [cli_arguments EXCEPT !.name = Some(value)])
            ELSE Throws(<<"Failed to read name parameter">>)
        ELSE IF arg = ArgI \/ arg = ArgInput THEN
            IF it + 1 # Len(raw_arguments)
            THEN parse_loop(raw_arguments, it + 1, [cli_arguments EXCEPT !.input = Some(value)])
            ELSE Throws(<<"Failed to read input parameter">>)
        ELSE IF arg = ArgL \/ arg = ArgListScenarios THEN
            parse_loop(raw_arguments, it, [cli_arguments EXCEPT !.list_scenarios = TRUE])
        ELSE IF arg = ArgH \/ arg = ArgHelp THEN
            parse_loop(raw_arguments, it, [cli_arguments EXCEPT !.help = TRUE])
        ELSE Throws(<<"Unknown argument provided">>)

\* The process is terminated (no value, no exception).
Aborts == [kind |-> "abort", what |-> <<>>, value |-> <<>>]

\* parse_cli_arguments: the set of outcomes a build can produce.  On an empty
\* vector begin() == end() and the ++args_it of the loop condition steps the
\* iterator past the end, which is undefined: with plain pointer iterators the
\* stepped iterator compares not less than end() and the defaults are
\* returned, with checked iterators the increment terminates the process.
parse_cli_arguments(raw_arguments) ==
    IF raw_arguments = <<>>
    THEN {Returns(DefaultCliArguments), Aborts}
    ELSE {parse_loop(raw_arguments, 0, DefaultCliArguments)}

UsageText ==
    << "Test scenario runner",
       "'-n', '--name' - test scenario name",
       "'-i', '--input' - test scenario input",
       "'-l', '--list-scenarios' - list available scenarios",
       "'-h', '--help' - show help" >>

\* What run_cli_app does once the arguments are parsed.
Effect(r, ex, calls, out, err) ==
    [ret |-> r, executed |-> ex, ctx_calls |-> calls, cout |-> out, cerr |-> err]

\* Variant: the list flag is looked at before the help flag.
dispatch_list_first(cli_arguments, root) ==
    IF cli_arguments.list_scenarios THEN
        Effect(Returns(<<>>), <<>>, <<[fn |-> "list_scenarios"]>>, list_scenarios(root), <<>>)
    ELSE IF cli_arguments.help THEN
        Effect(Returns(<<>>), <<>>, <<>>, <<>>, UsageText)
    ELSE IF cli_arguments.name = Nothing THEN
        Effect(Throws(<<"Test scenario name must be provided">>), <<>>, <<>>, <<>>, <<>>)
    ELSE IF cli_arguments.name[1] = <<>> THEN
        Effect(Throws(<<"Test scenario name must not be empty">>), <<>>, <<>>, <<>>, <<>>)
    ELSE LET run == TestContext_run(root, cli_arguments.name[1], cli_arguments.input)
         IN  Effect(run.ret, run.executed,
                    <<[fn |-> "run", name |-> cli_arguments.name[1], input |-> cli_arguments.input]>>,
                    <<>>, <<>>)

dispatch(cli_arguments, root) ==
    IF cli_arguments.help THEN
        Effect(Returns(<<>>), <<>>, <<>>, <<>>, UsageText)
    ELSE IF cli_arguments.list_scenarios THEN
        Effect(Returns(<<>>), <<>>, <<[fn |-> "list_scenarios"]>>, list_scenarios(root), <<>>)
    ELSE IF cli_arguments.name = Nothing THEN
        Effect(Throws(<<"Test scenario name must be provided">>), <<>>, <<>>, <<>>, <<>>)
    ELSE IF cli_arguments.name[1] = <<>> THEN
        Effect(Throws(<<"Test scenario name must not be empty">>), <<>>, <<>>, <<>>, <<>>)
    ELSE LET run == TestContext_run(root, cli_arguments.name[1], cli_arguments.input)
         IN  Effect(run.ret, run.executed,
                    <<[fn |-> "run", name |-> cli_arguments.name[1], input |-> cli_arguments.input]>>,
                    <<>>, <<>>)

\* Variant: a help flag anywhere after the program name is served before the
\* argument list is parsed.
run_cli_app_help_first(raw_arguments, root) ==
    IF \E i \in 2..Len(raw_arguments) : raw_arguments[i] \in {ArgH, ArgHelp}
    THEN {Effect(Returns(<<>>), <<>>, <<>>, <<>>, UsageText)}
    ELSE {IF parsed.kind = "ok" THEN dispatch(parsed.value, root)
          ELSE Effect(parsed, <<>>, <<>>, <<>>, <<>>) : parsed \in parse_cli_arguments(raw_arguments)}

\* run_cli_app on the context wrapping group root: the set of possible effects
run_cli_app(raw_arguments, root) ==
    {IF parsed.kind = "ok" THEN dispatch(parsed.value, root)
     ELSE Effect(parsed, <<>>, <<>>, <<>>, <<>>) : parsed \in parse_cli_arguments(raw_arguments)}

----------------------------------------------------------------------------
(* Construction of the tree and the inputs of the calls.                   *)

NoCall == [op |-> "none"]

\* Nothing has been written to standard output.
NoOutput == [buffer |-> <<>>, written |-> <<>>]

SeqsUpTo(S, n) == UNION {[1..k -> S] : k \in 0..n}

RECURSIVE SortedSeq(_)
SortedSeq(S) ==
    IF S = {} THEN <<>>
    ELSE LET m == CHOOSE x \in S : \A y \in S : x <= y
         IN  <<m>> \o SortedSeq(S \ {m})

\* Groups that are not (yet) a subgroup of any group, in construction order.
FreeGroups ==
    {g \in GroupIds : \A h \in GroupIds : \A i \in DOMAIN groups[h].groups_ : groups[h].groups_[i] # g}

\* The group constructed last, and whether it is the root of everything built.
Top == Len(groups)
TreeBuilt == groups # <<>> /\ FreeGroups = {Top}

\* new ScenarioGroupImpl{name, {new ScenarioStub{n1}, ...}, {the last k free groups}}.
\* Each object gets one owner and a group's children are constructed before
\* it, so every ordered tree is built in exactly one way (in postorder).
NewGroup(name, scenario_names, k) ==
    LET free == SortedSeq(FreeGroups)
    IN  /\ call = NoCall
        /\ Len(groups) < MaxGroups
        /\ Len(scenarios) + Len(scenario_names) <= MaxScenarios
        /\ k <= Len(free)
        /\ scenarios' = scenarios \o [i \in 1..Len(scenario_names) |-> [name_ |-> scenario_names[i]]]
        /\ groups' = Append(groups,
                            [name_ |-> name,
                             scenarios_ |-> [i \in 1..Len(scenario_names) |-> Len(scenarios) + i],
                             groups_ |-> SubSeq(free, Len(free) - k + 1, Len(free))])
        /\ UNCHANGED <<root_group_, call, ret, executed, ctx_calls, cout, cerr>>
        /\ UNCHANGED <<threads, subscriber, subscribers, stdout>>

\* The dotted paths asked for: up to MaxGroups segments taken from Names.
Paths == {join(segs, <<".">>) : segs \in SeqsUpTo(Names, MaxGroups) \ {<<>>}}

\* The inputs handed to a scenario.
Inputs == {Nothing, Some(StrOk), Some(StrError)}

\* group->find_scenario(name) on the root of the tree built
FindScenario(name) ==
    /\ call = NoCall
    /\ TreeBuilt
    /\ call' = [op |-> "find_scenario", group |-> Top, name |-> name]
    /\ ret' = Returns(find_scenario(Top, name))
    /\ UNCHANGED <<scenarios, groups, root_group_, executed, ctx_calls, cout, cerr>>
    /\ UNCHANGED <<threads, subscriber, subscribers, stdout>>

\* TestContext context{root}; context.list_scenarios()
ListScenarios ==
    /\ call = NoCall
    /\ TreeBuilt
    /\ root_group_' = Some(Top)
    /\ call' = [op |-> "list_scenarios"]
    /\ ret' = Returns(list_scenarios(Top))
    /\ UNCHANGED <<scenarios, groups, executed, ctx_calls, cout, cerr>>
    /\ UNCHANGED <<threads, subscriber, subscribers, stdout>>

\* TestContext context{root}; context.run(name, input)
Run(name, input) ==
    /\ call = NoCall
    /\ TreeBuilt
    /\ root_group_' = Some(Top)
    /\ call' = [op |-> "run", name |-> name, input |-> input]
    /\ LET r == TestContext_run(Top, name, input)
       IN  ret' = r.ret /\ executed' = r.executed
    /\ UNCHANGED <<scenarios, groups, ctx_calls, cout, cerr>>
    /\ UNCHANGED <<threads, subscriber, subscribers, stdout>>

\* parse_cli_arguments(raw_arguments)
ParseCliArguments(raw_arguments) ==
    /\ call = NoCall
    /\ call' = [op |-> "parse_cli_arguments", raw_arguments |-> raw_arguments]
    /\ ret' \in parse_cli_arguments(raw_arguments)
    /\ UNCHANGED <<scenarios, groups, root_group_, executed, ctx_calls, cout, cerr>>
    /\ UNCHANGED <<threads, subscriber, subscribers, stdout>>

\* run_cli_app(raw_arguments, test_context)
RunCliApp(raw_arguments) ==
    /\ call = NoCall
    /\ root_group_ # Nothing
    /\ call' = [op |-> "run_cli_app", raw_arguments |-> raw_arguments]
    /\ \E e \in run_cli_app(raw_arguments, root_group_[1]) :
          /\ ret' = e.ret
          /\ executed' = e.executed
          /\ ctx_calls' = e.ctx_calls
          /\ cout' = e.cout
          /\ cerr' = e.cerr
    /\ UNCHANGED <<scenarios, groups, root_group_>>
    /\ UNCHANGED <<threads, subscriber, subscribers, stdout>>

----------------------------------------------------------------------------
(* Command lines.                                                          *)

\* Tokens after the program name.
MaxArgs == 3
\* Well-formed units (a flag, or an option with its value) after the program name.
MaxUnits == 3

Exe == <<"e", "x", "e">>

Flags == {ArgL, ArgListScenarios, ArgH, ArgHelp}
Options == {ArgN, ArgName, ArgI, ArgInput}
Values == {<<>>, <<"a">>, StrOk}
\* Not arguments: wrong case, a prefix of --name, an '='-joined value.
Others == {<<"-", "N">>, <<"-", "-", "n", "a", "m">>, <<"-", "n", "=", "a">>}
Tokens == Flags \cup Options \cup Values \cup Others

Units == {<<f>> : f \in Flags} \cup {<<o, v>> : o \in Options, v \in Values}

RECURSIVE Flatten(_)
Flatten(ss) == IF ss = <<>> THEN <<>> ELSE Head(ss) \o Flatten(Tail(ss))

ArgLists ==
    {<<>>}
    \cup {<<Exe>> \o t : t \in SeqsUpTo(Tokens, MaxArgs)}
    \cup {<<Exe>> \o Flatten(u) : u \in SeqsUpTo(Units, MaxUnits)}

----------------------------------------------------------------------------
(* Specifications.                                                         *)

Init ==
    /\ scenarios = <<>>
    /\ groups = <<>>
    /\ root_group_ = Nothing
    /\ call = NoCall
    /\ ret = NoRet
    /\ executed = <<>>
    /\ ctx_calls = <<>>
    /\ cout = <<>>
    /\ cerr = <<>>
    /\ threads = <<>>
    /\ subscriber = Nothing
    /\ subscribers = <<>>
    /\ stdout = NoOutput

Build ==
    /\ call = NoCall
    /\ \E name \in Names :
       \E scenario_names \in SeqsUpTo(Names, MaxScenarios) :
       \E k \in 0..MaxGroups :
           NewGroup(name, scenario_names, k)

Find == call = NoCall /\ \E name \in Paths : FindScenario(name)

List == ListScenarios

RunScenario == call = NoCall /\ \E name \in Paths : \E input \in Inputs : Run(name, input)

\* The scenario tree with its lookup and its enumeration.
NextTree == Build \/ Find \/ List

SpecTree == Init /\ [][NextTree]_vars

\* The test context running scenarios of the tree.
NextRun == Build \/ RunScenario

SpecRun == Init /\ [][NextRun]_vars

StrRoot == <<"r", "o", "o", "t">>

\* The trees of the command-line tests: a root with one scenario, and a root
\* with one scenario and one subgroup holding one scenario.
FixtureFlat ==
    [scenarios |-> <<[name_ |-> <<"a">>]>>,
     groups |-> <<[name_ |-> StrRoot, scenarios_ |-> <<1>>, groups_ |-> <<>>]>>]

FixtureNested ==
    [scenarios |-> <<[name_ |-> <<"a">>], [name_ |-> <<"a">>]>>,
     groups |-> <<[name_ |-> <<"a">>, scenarios_ |-> <<1>>, groups_ |-> <<>>],
                  [name_ |-> StrRoot, scenarios_ |-> <<2>>, groups_ |-> <<1>>]>>]

InitCli ==
    /\ \E f \in {FixtureFlat, FixtureNested} :
          /\ scenarios = f.scenarios
          /\ groups = f.groups
          /\ root_group_ = Some(Len(f.groups))
    /\ call = NoCall
    /\ ret = NoRet
    /\ executed = <<>>
    /\ ctx_calls = <<>>
    /\ cout = <<>>
    /\ cerr = <<>>
    /\ threads = <<>>
    /\ subscriber = Nothing
    /\ subscribers = <<>>
    /\ stdout = NoOutput

Parse == call = NoCall /\ \E raw_arguments \in ArgLists : ParseCliArguments(raw_arguments)

RunApp == call = NoCall /\ \E raw_arguments \in ArgLists : RunCliApp(raw_arguments)

\* The command line: parsing and dispatch.
NextCli == Parse \/ RunApp

SpecCli == InitCli /\ [][NextCli]_vars

----------------------------------------------------------------------------
(* The tree as the properties see it: segments, chains and addresses.      *)

\* The dotted path G1.G2...Gn.S of a non-empty list of segments.
RECURSIVE Dotted(_)
Dotted(segs) ==
    IF Len(segs) = 1 THEN segs[1]
    ELSE segs[1] \o <<".">> \o Dotted(Tail(segs))

\* The lists of 1..MaxGroups segments over a set of names.
SegLists(names) == SeqsUpTo(names, MaxGroups) \ {<<>>}

SubgroupAt(g, i) == groups[g].groups_[i]
ScenarioAt(g, k) == groups[g].scenarios_[k]

\* The direct scenarios of g named S.
DirectScenarios(g, S) ==
    {ScenarioAt(g, k) : k \in {k \in DOMAIN groups[g].scenarios_ : scenarios[ScenarioAt(g, k)].name_ = S}}

\* The scenarios reached from g by any chain of subgroups named
\* segs[1], ..., segs[n] ending in a direct scenario named segs[n+1].
RECURSIVE ChainScenarios(_, _)
ChainScenarios(g, segs) ==
    IF Len(segs) = 1 THEN DirectScenarios(g, segs[1])
    ELSE UNION {ChainScenarios(SubgroupAt(g, i), Tail(segs)) :
                  i \in {i \in DOMAIN groups[g].groups_ : groups[SubgroupAt(g, i)].name_ = segs[1]}}

\* The same, where at each level only the first subgroup (in construction
\* order) carrying the segment's name is entered.
RECURSIVE FirstChainScenarios(_, _)
FirstChainScenarios(g, segs) ==
    IF Len(segs) = 1 THEN DirectScenarios(g, segs[1])
    ELSE LET hits == {i \in DOMAIN groups[g].groups_ : groups[SubgroupAt(g, i)].name_ = segs[1]}
         IN  IF hits = {} THEN {}
             ELSE FirstChainScenarios(SubgroupAt(g, CHOOSE i \in hits : \A j \in hits : i <= j), Tail(segs))

\* All scenarios in the subtree of g.
RECURSIVE ScenariosBelow(_)
ScenariosBelow(g) ==
    {ScenarioAt(g, k) : k \in DOMAIN groups[g].scenarios_}
    \cup UNION {ScenariosBelow(SubgroupAt(g, i)) : i \in DOMAIN groups[g].groups_}

NonEmptyNames == Names \ {<<>>}

Found == call.op = "find_scenario" /\ ret.value # Nothing
NotFound == call.op = "find_scenario" /\ ret.value = Nothing

----------------------------------------------------------------------------
(* Properties of find_scenario.                                            *)

\* C1, as stated: for a path G1.G2...Gn.S of non-empty segments find_scenario
\* returns a scenario iff some chain of subgroups named G1, ..., Gn ends in a
\* group with a direct scenario named S, and what it returns is such a scenario.
C1_AnyChain ==
    call.op = "find_scenario" =>
        \A segs \in SegLists(NonEmptyNames) :
            call.name = Dotted(segs) =>
                /\ (ret.value # Nothing) <=> (ChainScenarios(call.group, segs) # {})
                /\ ret.value # Nothing => ret.value[1] \in ChainScenarios(call.group, segs)

\* C1, amended: for a path G1.G2...Gn.S of non-empty segments find_scenario
\* returns a scenario iff the chain that takes at each level the first subgroup
\* named Gi exists and its last group has a direct scenario named S; what is
\* returned is a direct scenario named S of that last group, never a scenario
\* of an intermediate group.
C1_FirstChain ==
    call.op = "find_scenario" =>
        \A segs \in SegLists(NonEmptyNames) :
            call.name = Dotted(segs) =>
                /\ (ret.value # Nothing) <=> (FirstChainScenarios(call.group, segs) # {})
                /\ ret.value # Nothing => ret.value[1] \in FirstChainScenarios(call.group, segs)

\* C1, witness: a path of three segments is resolved through two levels of subgroups.
C1_Witness ==
    /\ Found
    /\ call.name = Dotted(<<<<"a">>, <<"a">>, <<"a">>>>)

\* C1, a broken link: the last group of the chain lacks the scenario while an
\* intermediate group (the group searched) has one of that name; nothing is found.
C1_WitnessBroken ==
    /\ NotFound
    /\ call.name = Dotted(<<<<"a">>, <<"a">>>>)
    /\ DirectScenarios(call.group, <<"a">>) # {}
    /\ \E i \in DOMAIN groups[call.group].groups_ : groups[SubgroupAt(call.group, i)].name_ = <<"a">>

\* Sibling i of group h is the first of its name among the subgroups of h.
FirstOfNameGroup(h, i) ==
    \A j \in 1..(i - 1) : groups[SubgroupAt(h, j)].name_ # groups[SubgroupAt(h, i)].name_

\* Scenario k of group h is the first of its name among the scenarios of h.
FirstOfNameScenario(h, k) ==
    \A j \in 1..(k - 1) : scenarios[ScenarioAt(h, j)].name_ # scenarios[ScenarioAt(h, k)].name_

\* The first subgroup of g named n, as a set of at most one group.
FirstNamed(g, n) ==
    {SubgroupAt(g, i) : i \in {i \in DOMAIN groups[g].groups_ :
                                  groups[SubgroupAt(g, i)].name_ = n /\ FirstOfNameGroup(g, i)}}

\* C2: find_scenario commits to the first of same-named siblings.  A returned
\* scenario is the first of its name in its group, every group on the way down
\* to it is the first of its name among its siblings, and when the first
\* subgroup carrying the first segment holds no chain for the rest of the
\* path nothing is returned, whatever later subgroups of that name hold.
C2_FirstSibling ==
    call.op = "find_scenario" =>
        /\ ret.value # Nothing =>
              /\ \A h \in GroupIds : \A k \in DOMAIN groups[h].scenarios_ :
                    ScenarioAt(h, k) = ret.value[1] => FirstOfNameScenario(h, k)
              /\ \A h \in GroupIds : \A i \in DOMAIN groups[h].groups_ :
                    ret.value[1] \in ScenariosBelow(SubgroupAt(h, i)) => FirstOfNameGroup(h, i)
        /\ \A segs \in SegLists(Names) :
              (call.name = Dotted(segs) /\ Len(segs) > 1) =>
                  \A f \in FirstNamed(call.group, segs[1]) :
                      ChainScenarios(f, Tail(segs)) = {} => ret.value = Nothing

\* C2, witness: nothing is found although a later subgroup of the same name
\* as the first holds the rest of the path.
C2_Witness ==
    /\ NotFound
    /\ \E segs \in SegLists(Names) :
          /\ call.name = Dotted(segs)
          /\ Len(segs) > 1
          /\ FirstNamed(call.group, segs[1]) # {}
          /\ \E i \in DOMAIN groups[call.group].groups_ :
                /\ groups[SubgroupAt(call.group, i)].name_ = segs[1]
                /\ ~FirstOfNameGroup(call.group, i)
                /\ ChainScenarios(SubgroupAt(call.group, i), Tail(segs)) # {}

\* C10, as stated: find_scenario("") finds nothing, whatever the names in the tree.
C10_EmptyNeverFound ==
    (call.op = "find_scenario" /\ call.name = <<>>) => ret.value = Nothing

\* C10, amended: find_scenario("") finds nothing on every group none of whose
\* direct scenarios has the empty name, whatever the other names in the tree.
C10_EmptyNotFound ==
    (call.op = "find_scenario" /\ call.name = <<>> /\ DirectScenarios(call.group, <<>>) = {})
        => ret.value = Nothing

\* C10, witness: the empty path is looked up in a group that has a scenario and
\* a subgroup with the empty name holding a scenario with the empty name.
C10_Witness ==
    /\ NotFound
    /\ call.name = <<>>
    /\ groups[call.group].scenarios_ # <<>>
    /\ \E i \in DOMAIN groups[call.group].groups_ :
          /\ groups[SubgroupAt(call.group, i)].name_ = <<>>
          /\ DirectScenarios(SubgroupAt(call.group, i), <<>>) # {}

----------------------------------------------------------------------------
(* Properties of list_scenarios.                                           *)

\* The addresses of the scenarios in the subtree of g: the indices of the
\* subgroups entered on the way down, then the index of the scenario.
RECURSIVE Addresses(_)
Addresses(g) ==
    {<<k>> : k \in DOMAIN groups[g].scenarios_}
    \cup UNION {{<<i>> \o a : a \in Addresses(SubgroupAt(g, i))} : i \in DOMAIN groups[g].groups_}

\* Address a is listed before address b: the scenarios of subgroups come
\* before a group's own, subgroups and scenarios in construction order.
RECURSIVE ListedBefore(_, _)
ListedBefore(a, b) ==
    IF Len(a) = 1 THEN Len(b) = 1 /\ a[1] < b[1]
    ELSE IF Len(b) = 1 THEN TRUE
    ELSE a[1] < b[1] \/ (a[1] = b[1] /\ ListedBefore(Tail(a), Tail(b)))

\* The names of the groups entered on the way to address a (the group at
\* which the address starts is not among them), and the scenario's name.
RECURSIVE AncestorNames(_, _)
AncestorNames(g, a) ==
    IF Len(a) = 1 THEN <<>>
    ELSE <<groups[SubgroupAt(g, a[1])].name_>> \o AncestorNames(SubgroupAt(g, a[1]), Tail(a))

RECURSIVE ScenarioNameAt(_, _)
ScenarioNameAt(g, a) ==
    IF Len(a) = 1 THEN scenarios[ScenarioAt(g, a[1])].name_
    ELSE ScenarioNameAt(SubgroupAt(g, a[1]), Tail(a))

\* The scenario name prefixed by the dot-joined ancestor names (no prefix and
\* no dot when there is nothing to prefix).
Qualified(ancestors, name) ==
    IF ancestors = <<>> \/ Dotted(ancestors) = <<>> THEN name
    ELSE Dotted(ancestors) \o <<".">> \o name

\* The position of address a in the listing of g.
Position(g, a) == 1 + Cardinality({b \in Addresses(g) : ListedBefore(b, a)})

ListedAsClaimed(g, list) ==
    /\ Len(list) = Cardinality(Addresses(g))
    /\ \A a \in Addresses(g) :
          list[Position(g, a)] = Qualified(AncestorNames(g, a), ScenarioNameAt(g, a))

\* Every group below g has a non-empty name.
RECURSIVE SubgroupsNamed(_)
SubgroupsNamed(g) ==
    \A i \in DOMAIN groups[g].groups_ :
        groups[SubgroupAt(g, i)].name_ # <<>> /\ SubgroupsNamed(SubgroupAt(g, i))

\* C3, as stated: for every tree list_scenarios returns the scenarios of the
\* subgroups (in construction order, recursively) before a group's own, each
\* as its name prefixed by the dot-joined names of its ancestor groups below
\* the root.
C3_ListAnyTree ==
    call.op = "list_scenarios" => ListedAsClaimed(root_group_[1], ret.value)

\* C3, amended: the same, for every tree in which every group below the root
\* has a non-empty name; the root's own name, empty or not, is in no entry.
C3_ListNamedGroups ==
    (call.op = "list_scenarios" /\ SubgroupsNamed(root_group_[1]))
        => ListedAsClaimed(root_group_[1], ret.value)

\* C3, witness: a listing in which a scenario two groups below the root comes
\* before a scenario of the root, which has a name.
C3_Witness ==
    /\ call.op = "list_scenarios"
    /\ SubgroupsNamed(root_group_[1])
    /\ groups[root_group_[1]].name_ # <<>>
    /\ Len(ret.value) = 2
    /\ ret.value[1] = Dotted(<<<<"a">>, <<"a">>, <<"a">>>>)
    /\ ret.value[2] = <<"a">>

----------------------------------------------------------------------------
(* Properties of TestContext::run.                                         *)

\* what() of the exception for a name that does not resolve
NotFoundMessage(name) == <<"Scenario ">> \o name \o <<" not found">>

\* C4: run(name, input) throws "Scenario <name> not found", with the name as
\* given, exactly when find_scenario(name) on the root group yields nothing,
\* and then no scenario is executed.
C4_NotFound ==
    call.op = "run" =>
        LET missing == find_scenario(root_group_[1], call.name) = Nothing
        IN  /\ (ret.kind = "error" /\ ret.what = NotFoundMessage(call.name)) <=> missing
            /\ missing => executed = <<>>

\* C4, witness: a dotted name whose last link is missing is run on a tree that
\* holds scenarios, and the run fails.
C4_Witness ==
    /\ call.op = "run"
    /\ call.name = Dotted(<<<<"a">>, <<"a">>>>)
    /\ scenarios # <<>>
    /\ \E i \in DOMAIN groups[root_group_[1]].groups_ :
          groups[SubgroupAt(root_group_[1], i)].name_ = <<"a">>
    /\ ret.kind = "error"
    /\ executed = <<>>

\* C5: when find_scenario(name) on the root group yields a scenario,
\* run(name, input) executes that scenario once with the input given (absent
\* or not) and no other scenario, and ends as that scenario ends: it returns
\* when the scenario returns and throws the scenario's exception unchanged.
C5_RunsResolved ==
    call.op = "run" =>
        LET scenario == find_scenario(root_group_[1], call.name)
        IN  scenario # Nothing =>
                /\ executed = <<[scenario |-> scenario[1], input |-> call.input]>>
                /\ ret = ScenarioStub_run(call.input)

\* C5, witness: a scenario below a subgroup is run without input and its own
\* failure comes out of run.
C5_Witness ==
    /\ call.op = "run"
    /\ call.input = Nothing
    /\ Len(executed) = 1
    /\ executed[1].scenario \notin {ScenarioAt(root_group_[1], k) : k \in DOMAIN groups[root_group_[1]].scenarios_}
    /\ ret = Throws(<<"Missing input">>)

\* C5, the other outcome: a run with input "ok" returns.
C5_WitnessOk ==
    /\ call.op = "run"
    /\ call.input = Some(StrOk)
    /\ Len(executed) = 1
    /\ ret.kind = "ok"

----------------------------------------------------------------------------
(* The command line as the properties see it.                              *)

NameOptions == {ArgN, ArgName}
InputOptions == {ArgI, ArgInput}
ListFlags == {ArgL, ArgListScenarios}
HelpFlags == {ArgH, ArgHelp}

\* The positions of raw_arguments in flag position from position i on: the
\* token after the program name is, and so is the token after a flag and the
\* token after the value of an option.
RECURSIVE FlagPositions(_, _)
FlagPositions(raw, i) ==
    IF i > Len(raw) THEN {}
    ELSE IF raw[i] \in NameOptions \cup InputOptions
         THEN {i} \cup FlagPositions(raw, i + 2)
         ELSE {i} \cup FlagPositions(raw, i + 1)

Maximum(S) == CHOOSE x \in S : \A y \in S : y <= x
Minimum(S) == CHOOSE x \in S : \A y \in S : x <= y

\* The positions at which reading fails, with the error of each.
Offending(raw) ==
    LET fp == FlagPositions(raw, 2)
    IN  [i \in {i \in fp : \/ raw[i] \notin NameOptions \cup InputOptions \cup ListFlags \cup HelpFlags
                           \/ (raw[i] \in NameOptions \cup InputOptions /\ i = Len(raw))} |->
            IF raw[i] \in NameOptions THEN <<"Failed to read name parameter">>
            ELSE IF raw[i] \in InputOptions THEN <<"Failed to read input parameter">>
            ELSE <<"Unknown argument provided">>]

\* The value following the last of the given options in flag position.
LastValue(raw, options) ==
    LET at == {i \in FlagPositions(raw, 2) : raw[i] \in options}
    IN  IF at = {} THEN Nothing ELSE Some(raw[Maximum(at) + 1])

Occurs(raw, flags) == \E i \in FlagPositions(raw, 2) : raw[i] \in flags

\* The result claimed for an argument list that parses.
Parsed(raw) ==
    [name |-> LastValue(raw, NameOptions),
     input |-> LastValue(raw, InputOptions),
     list_scenarios |-> Occurs(raw, ListFlags),
     help |-> Occurs(raw, HelpFlags)]

\* C7, as stated: parse_cli_arguments fails exactly when a token in flag
\* position is not one of the eight arguments (unknown argument) or is a name
\* or input option with no token after it (missing value), with the error of
\* the first such token; every other argument list parses successfully.
C7_ParseErrors ==
    call.op = "parse_cli_arguments" =>
        LET bad == Offending(call.raw_arguments)
        IN  IF DOMAIN bad = {} THEN ret.kind = "ok"
            ELSE ret = Throws(bad[Minimum(DOMAIN bad)])

\* C7 on the argument lists that hold at least the program name.
C7_ParseErrorsWithProgramName ==
    (call.op = "parse_cli_arguments" /\ call.raw_arguments # <<>>) =>
        LET bad == Offending(call.raw_arguments)
        IN  IF DOMAIN bad = {} THEN ret.kind = "ok"
            ELSE ret = Throws(bad[Minimum(DOMAIN bad)])

\* C8, as stated: an argument list that parses yields the value after the last
\* name option and after the last input option in flag position (absent when
\* there is none) and the flags that occur in flag position; the empty list
\* and the list of the program name alone yield the defaults.
C8_ParseResult ==
    call.op = "parse_cli_arguments" =>
        /\ ret.kind = "ok" => ret.value = Parsed(call.raw_arguments)
        /\ call.raw_arguments \in {<<>>, <<Exe>>} => ret = Returns(DefaultCliArguments)

\* C8 on the argument lists that hold at least the program name.
C8_ParseResultWithProgramName ==
    (call.op = "parse_cli_arguments" /\ call.raw_arguments # <<>>) =>
        /\ ret.kind = "ok" => ret.value = Parsed(call.raw_arguments)
        /\ call.raw_arguments = <<Exe>> => ret = Returns(DefaultCliArguments)

\* The effect of the last call, as run_cli_app yields it.
LastEffect == Effect(ret, executed, ctx_calls, cout, cerr)

\* C6: for an argument list that parsed, run_cli_app decides in this order.
\* (1) With the help flag it prints the usage text only: no listing, no
\* lookup, no run, no error, with or without a name.  (2) Else with the list
\* flag it prints the enumerated names only, with or without a name.  (3) Else
\* it throws the missing-name error when no name was given and the empty-name
\* error when the name is empty, without a lookup.  (4) Else it calls
\* TestContext::run with the name and the input (absent or not).
C6_Dispatch ==
    (call.op = "run_cli_app" /\ DOMAIN Offending(call.raw_arguments) = {} /\ ret.kind # "abort") =>
        LET a == Parsed(call.raw_arguments)
            root == root_group_[1]
        IN  IF a.help THEN
                LastEffect = Effect(Returns(<<>>), <<>>, <<>>, <<>>, UsageText)
            ELSE IF a.list_scenarios THEN
                /\ ret = Returns(<<>>)
                /\ cout = list_scenarios(root)
                /\ cerr = <<>>
                /\ executed = <<>>
                /\ \A i \in DOMAIN ctx_calls : ctx_calls[i].fn # "run"
            ELSE IF a.name = Nothing THEN
                LastEffect = Effect(Throws(<<"Test scenario name must be provided">>), <<>>, <<>>, <<>>, <<>>)
            ELSE IF a.name = Some(<<>>) THEN
                LastEffect = Effect(Throws(<<"Test scenario name must not be empty">>), <<>>, <<>>, <<>>, <<>>)
            ELSE
                /\ ctx_calls = <<[fn |-> "run", name |-> a.name[1], input |-> a.input]>>
                /\ ret = TestContext_run(root, a.name[1], a.input).ret
                /\ executed = TestContext_run(root, a.name[1], a.input).executed
                /\ cout = <<>>
                /\ cerr = <<>>

\* C6, witness: help, list and an empty name are all given; only the usage
\* text is printed.
C6_Witness ==
    /\ call.op = "run_cli_app"
    /\ DOMAIN Offending(call.raw_arguments) = {}
    /\ Occurs(call.raw_arguments, ListFlags)
    /\ Occurs(call.raw_arguments, HelpFlags)
    /\ LastValue(call.raw_arguments, NameOptions) = Some(<<>>)
    /\ cerr = UsageText
    /\ cout = <<>>
    /\ ret.kind = "ok"

\* C6, the last case: without help and list flags a named scenario is run
\* without input and its failure comes out.
C6_WitnessRun ==
    /\ call.op = "run_cli_app"
    /\ Len(executed) = 1
    /\ executed[1].input = Nothing
    /\ ret = Throws(<<"Missing input">>)

\* The well-formed units of the tokens from position i on: a flag, or an
\* option with the token after it as its value; <<"?">> stands for a token
\* that starts no unit.
RECURSIVE UnitsFrom(_, _)
UnitsFrom(raw, i) ==
    IF i > Len(raw) THEN <<>>
    ELSE IF raw[i] \in ListFlags \cup HelpFlags THEN <<<<raw[i]>>>> \o UnitsFrom(raw, i + 1)
    ELSE IF raw[i] \in NameOptions \cup InputOptions /\ i < Len(raw)
         THEN <<<<raw[i], raw[i + 1]>>>> \o UnitsFrom(raw, i + 2)
         ELSE <<<<"?">>>> \o UnitsFrom(raw, Len(raw) + 1)

\* raw_arguments is the program name followed by well-formed units, with the
\* name option and the input option at most once each.
MadeOfUnits(raw) ==
    /\ raw # <<>>
    /\ LET u == UnitsFrom(raw, 2)
       IN  /\ \A i \in DOMAIN u : u[i] # <<"?">>
           /\ Cardinality({i \in DOMAIN u : u[i][1] \in NameOptions}) <= 1
           /\ Cardinality({i \in DOMAIN u : u[i][1] \in InputOptions}) <= 1

Orderings(n) == {f \in [1..n -> 1..n] : \A i, j \in 1..n : i # j => f[i] # f[j]}

\* The argument lists made of the same program name and the same units in any order.
Reorderings(raw) ==
    LET u == UnitsFrom(raw, 2)
    IN  {<<raw[1]>> \o Flatten([i \in DOMAIN u |-> u[f[i]]]) : f \in Orderings(Len(u))}

\* C9: for an argument list made of well-formed units with the name option and
\* the input option at most once each, every reordering of the units parses to
\* the same result and makes run_cli_app do the same.
C9_OrderOfFlags ==
    /\ (call.op = "parse_cli_arguments" /\ MadeOfUnits(call.raw_arguments)) =>
          \A other \in Reorderings(call.raw_arguments) : parse_cli_arguments(other) = {ret}
    /\ (call.op = "run_cli_app" /\ MadeOfUnits(call.raw_arguments)) =>
          \A other \in Reorderings(call.raw_arguments) : run_cli_app(other, root_group_[1]) = {LastEffect}

\* C9, witness: a name option, an input option and a flag, three units that
\* can be put in six orders, were parsed.
C9_Witness ==
    /\ call.op = "parse_cli_arguments"
    /\ MadeOfUnits(call.raw_arguments)
    /\ Cardinality(Reorderings(call.raw_arguments)) = 6
    /\ ret.kind = "ok"
    /\ ret.value.name # Nothing
    /\ ret.value.input # Nothing
    /\ ret.value.list_scenarios # ret.value.help

----------------------------------------------------------------------------
(* Single-segment paths.                                                   *)

\* The string holds no dot.
DotFree(str) == \A i \in DOMAIN str : str[i] # "."

\* The positions, among the scenarios of g, of those named S.
DirectPositions(g, S) ==
    {k \in DOMAIN groups[g].scenarios_ : scenarios[ScenarioAt(g, k)].name_ = S}

\* C13: a path of one segment (no dot) is matched against the direct
\* scenarios of the group searched only: find_scenario returns the first
\* direct scenario of that name, and not-found when there is none, whatever
\* the subgroups are named and whatever scenarios they hold at any depth.
\* What is returned is never a scenario of another group.
C13_SingleSegment ==
    (call.op = "find_scenario" /\ DotFree(call.name)) =>
        LET hits == DirectPositions(call.group, call.name)
        IN  /\ hits = {} => ret.value = Nothing
            /\ hits # {} =>
                  ret.value = Some(ScenarioAt(call.group, CHOOSE k \in hits : \A j \in hits : k <= j))

\* C13, witness: the name asked for is the name of a subgroup and of a
\* scenario two levels down, the group searched has a scenario of another
\* name, and nothing is found.
C13_Witness ==
    /\ NotFound
    /\ call.name = <<"a">>
    /\ groups[call.group].scenarios_ # <<>>
    /\ \E i \in DOMAIN groups[call.group].groups_ :
          LET sub == SubgroupAt(call.group, i)
          IN  /\ groups[sub].name_ = <<"a">>
              /\ \E j \in DOMAIN groups[sub].groups_ :
                    DirectScenarios(SubgroupAt(sub, j), <<"a">>) # {}

\* C13, the first of two direct scenarios of the same name is returned.
C13_WitnessFirst ==
    /\ Found
    /\ DotFree(call.name)
    /\ Cardinality(DirectPositions(call.group, call.name)) > 1

----------------------------------------------------------------------------
(* Parsing comes before dispatch.                                          *)

\* C16: run_cli_app parses the whole argument list before it dispatches.  When
\* some token makes parsing fail (an unknown argument, or a name or input
\* option with no value), the call fails with the error of the first such
\* token and prints no usage text, lists nothing and runs nothing, also when
\* a help or list flag stands earlier in the list.
C16_ParseBeforeDispatch ==
    (call.op = "run_cli_app" /\ DOMAIN Offending(call.raw_arguments) # {}) =>
        LET bad == Offending(call.raw_arguments)
        IN  LastEffect = Effect(Throws(bad[Minimum(DOMAIN bad)]), <<>>, <<>>, <<>>, <<>>)

\* C16, witness: a help flag and a list flag stand before the token that
\* makes parsing fail, and the call failed.
C16_Witness ==
    /\ call.op = "run_cli_app"
    /\ DOMAIN Offending(call.raw_arguments) # {}
    /\ LET first == Minimum(DOMAIN Offending(call.raw_arguments))
       IN  /\ \E i \in 2..(first - 1) : call.raw_arguments[i] \in HelpFlags
           /\ \E i \in 2..(first - 1) : call.raw_arguments[i] \in ListFlags
    /\ ret.kind = "error"
    /\ cerr = <<>>
    /\ cout = <<>>

----------------------------------------------------------------------------
(* Trees with distinct sibling names.                                      *)

\* Non-empty, dot-free names.
DistinctNames == {<<"a">>, <<"b">>}

Injective(seq) == \A i, j \in DOMAIN seq : i # j => seq[i] # seq[j]

\* The construction restricted to trees in which no two sibling groups and no
\* two sibling scenarios share a name.
BuildDistinct ==
    /\ call = NoCall
    /\ \E name \in DistinctNames :
       \E scenario_names \in SeqsUpTo(DistinctNames, MaxScenarios) :
       \E k \in 0..MaxGroups :
           /\ Injective(scenario_names)
           /\ LET free == SortedSeq(FreeGroups)
              IN  k <= Len(free) /\
                  Injective([i \in 1..k |-> groups[free[Len(free) - k + i]].name_])
           /\ NewGroup(name, scenario_names, k)

\* The dotted paths asked for in these trees: their names and the empty segment.
DistinctPaths ==
    {join(segs, <<".">>) : segs \in SeqsUpTo(DistinctNames \cup {<<>>}, MaxGroups) \ {<<>>}}

FindDistinct == call = NoCall /\ \E name \in DistinctPaths : FindScenario(name)

\* Lookup and enumeration on trees with distinct sibling names.
NextAgree == BuildDistinct \/ FindDistinct \/ List

SpecAgree == Init /\ [][NextAgree]_vars

\* All names in the subtree of g (its own included) are non-empty and
\* dot-free, and no two sibling groups and no two sibling scenarios of the
\* subtree share a name.
RECURSIVE WellNamed(_)
WellNamed(g) ==
    /\ groups[g].name_ # <<>> /\ DotFree(groups[g].name_)
    /\ \A k \in DOMAIN groups[g].scenarios_ :
          LET n == scenarios[ScenarioAt(g, k)].name_ IN n # <<>> /\ DotFree(n)
    /\ Injective([k \in DOMAIN groups[g].scenarios_ |-> scenarios[ScenarioAt(g, k)].name_])
    /\ Injective([i \in DOMAIN groups[g].groups_ |-> groups[SubgroupAt(g, i)].name_])
    /\ \A i \in DOMAIN groups[g].groups_ : WellNamed(SubgroupAt(g, i))

\* The scenario node at address a below g.
RECURSIVE NodeAt(_, _)
NodeAt(g, a) ==
    IF Len(a) = 1 THEN ScenarioAt(g, a[1])
    ELSE NodeAt(SubgroupAt(g, a[1]), Tail(a))

Range(seq) == {seq[i] : i \in DOMAIN seq}

\* C17: in a tree whose names are non-empty and dot-free and in which no two
\* sibling groups and no two sibling scenarios share a name, list_scenarios
\* and find_scenario agree.  The list has one entry per scenario node and no
\* entry twice, the entry produced for a node resolves on the root to that
\* node, and every path find_scenario resolves on the root is an entry.
C17_ListFindAgree ==
    /\ (call.op = "list_scenarios" /\ WellNamed(root_group_[1])) =>
          LET root == root_group_[1]
              list == ret.value
          IN  /\ Len(list) = Cardinality(ScenariosBelow(root))
              /\ Cardinality(Addresses(root)) = Cardinality(ScenariosBelow(root))
              /\ Injective(list)
              /\ \A a \in Addresses(root) :
                    find_scenario(root, list[Position(root, a)]) = Some(NodeAt(root, a))
              /\ \A path \in DistinctPaths :
                    find_scenario(root, path) # Nothing => path \in Range(list)
    /\ (call.op = "find_scenario" /\ WellNamed(call.group) /\ ret.value # Nothing) =>
          \E i \in DOMAIN list_scenarios(call.group) :
              /\ list_scenarios(call.group)[i] = call.name
              /\ \E a \in Addresses(call.group) :
                    Position(call.group, a) = i /\ NodeAt(call.group, a) = ret.value[1]

\* C17, witness: a tree of three levels with a scenario at the root and one
\* two levels down was listed.
C17_Witness ==
    /\ call.op = "list_scenarios"
    /\ WellNamed(root_group_[1])
    /\ Len(ret.value) > 1
    /\ \E a \in Addresses(root_group_[1]) : Len(a) = 3
    /\ \E a \in Addresses(root_group_[1]) : Len(a) = 1

\* C17, a path of two segments was resolved in such a tree.
C17_WitnessFound ==
    /\ Found
    /\ WellNamed(call.group)
    /\ ~DotFree(call.name)

----------------------------------------------------------------------------
(* string_utils, call by call; split iteration by iteration.               *)

\* Length of the strings handed to split and trim.
MaxStrLen == 3
\* Length of the delimiter handed to split.
MaxDelimiterLen == 2
\* Number of parts handed to join.
MaxJoinParts == 3
\* Number of parts split collects before the model stops following the loop.
MaxParts == 6

\* The locals of string_utils::split at the top of its loop.
split_locals(str, delimiter) ==
    [pc |-> "loop", str |-> str, delimiter |-> delimiter,
     delimiter_size |-> Len(delimiter), parts |-> <<>>, pos_begin |-> 0, pos_end |-> 0]

\* Variant: an empty part is not collected.
split_iteration_skip_empty(t) ==
    LET pos_end == str_find(t.str, t.delimiter, t.pos_begin)
        part == str_substr(t.str, t.pos_begin, pos_end - t.pos_begin)
        parts == IF part = <<>> THEN t.parts ELSE Append(t.parts, part)
    IN  IF pos_end = npos
        THEN [t EXCEPT !.pos_end = pos_end, !.parts = parts, !.pc = "return"]
        ELSE [t EXCEPT !.pos_end = pos_end, !.parts = parts,
                       !.pos_begin = pos_end + t.delimiter_size]

\* One iteration of the while (true) loop of string_utils::split: find the
\* next occurrence, collect the part before it, leave the loop at the end of
\* the string or move the scan position behind the occurrence.
split_iteration(t) ==
    LET pos_end == str_find(t.str, t.delimiter, t.pos_begin)
        part == str_substr(t.str, t.pos_begin, pos_end - t.pos_begin)
    IN  IF pos_end = npos
        THEN [t EXCEPT !.pos_end = pos_end, !.parts = Append(@, part), !.pc = "return"]
        ELSE [t EXCEPT !.pos_end = pos_end, !.parts = Append(@, part),
                       !.pos_begin = pos_end + t.delimiter_size]

\* string_utils::split(str, delimiter) is entered
SplitCall(str, delimiter) ==
    /\ call = NoCall
    /\ threads = <<>>
    /\ threads' = <<split_locals(str, delimiter)>>
    /\ UNCHANGED <<scenarios, groups, root_group_, call, ret, executed, ctx_calls, cout, cerr>>
    /\ UNCHANGED <<subscriber, subscribers, stdout>>

\* the body of its loop runs once
SplitIteration ==
    /\ threads # <<>>
    /\ threads[1].pc = "loop"
    /\ Len(threads[1].parts) < MaxParts
    /\ threads' = <<split_iteration(threads[1])>>
    /\ UNCHANGED <<scenarios, groups, root_group_, call, ret, executed, ctx_calls, cout, cerr>>
    /\ UNCHANGED <<subscriber, subscribers, stdout>>

\* return parts
SplitReturn ==
    /\ threads # <<>>
    /\ threads[1].pc = "return"
    /\ threads' = <<[threads[1] EXCEPT !.pc = "done"]>>
    /\ call' = [op |-> "split", str |-> threads[1].str, delimiter |-> threads[1].delimiter]
    /\ ret' = Returns(threads[1].parts)
    /\ UNCHANGED <<scenarios, groups, root_group_, executed, ctx_calls, cout, cerr>>
    /\ UNCHANGED <<subscriber, subscribers, stdout>>

\* string_utils::join(parts, delimiter)
Join(parts, delimiter) ==
    /\ call = NoCall
    /\ threads = <<>>
    /\ call' = [op |-> "join", parts |-> parts, delimiter |-> delimiter]
    /\ ret' = Returns(join(parts, delimiter))
    /\ UNCHANGED <<scenarios, groups, root_group_, executed, ctx_calls, cout, cerr>>
    /\ UNCHANGED <<threads, subscriber, subscribers, stdout>>

\* std::isspace in the "C" locale
isspace(c) == c \in {" ", "\t", "\n", "\r", "\f"}

\* std::find_if(str.begin(), str.end(), fn): the 0-based position of the first
\* character from pos on that is not whitespace, Len(str) for end().
RECURSIVE find_if_not_space(_, _)
find_if_not_space(str, pos) ==
    IF pos >= Len(str) THEN Len(str)
    ELSE IF ~isspace(str[pos + 1]) THEN pos
    ELSE find_if_not_space(str, pos + 1)

\* std::find_if(str.rbegin(), str.rend(), fn).base(): the 0-based position
\* behind the last character before pos that is not whitespace, 0 (begin())
\* when the reverse search ends at rend().
RECURSIVE rfind_if_not_space_base(_, _)
rfind_if_not_space_base(str, pos) ==
    IF pos = 0 THEN 0
    ELSE IF ~isspace(str[pos]) THEN pos
    ELSE rfind_if_not_space_base(str, pos - 1)

\* string_utils::trim: the set of outcomes a build can produce.  For a string
\* of whitespace only, left_pos is end() and right_pos is begin(); with a
\* non-empty string the range [left_pos, right_pos) handed to the string
\* constructor is then not a valid range, which is undefined: the distance
\* wraps to a length above max_size() and the constructor throws
\* std::length_error, or checked iterators terminate the process.
trim(str) ==
    LET left_pos == find_if_not_space(str, 0)
        right_pos == rfind_if_not_space_base(str, Len(str))
    IN  IF left_pos <= right_pos
        THEN {Returns(SubSeq(str, left_pos + 1, right_pos))}
        ELSE {Throws(<<"std::length_error">>), Aborts}

\* string_utils::trim(str)
Trim(str) ==
    /\ call = NoCall
    /\ threads = <<>>
    /\ call' = [op |-> "trim", str |-> str]
    /\ ret' \in trim(str)
    /\ UNCHANGED <<scenarios, groups, root_group_, executed, ctx_calls, cout, cerr>>
    /\ UNCHANGED <<threads, subscriber, subscribers, stdout>>

\* The strings split, their delimiters (the empty one included), the parts
\* joined with their delimiters, and the strings trimmed.
SplitStrings == SeqsUpTo({"a", "."}, MaxStrLen)
SplitDelimiters == SeqsUpTo({"a", "."}, MaxDelimiterLen)
JoinParts == SeqsUpTo({<<>>, <<"1">>, <<"2">>}, MaxJoinParts)
JoinDelimiters == {<<>>, <<".">>, <<";">>, <<",", " ">>}
TrimStrings == SeqsUpTo({"a", " ", "\t"}, MaxStrLen)

SplitStart ==
    call = NoCall /\ threads = <<>> /\
    \E str \in SplitStrings : \E delimiter \in SplitDelimiters : SplitCall(str, delimiter)

JoinCall ==
    call = NoCall /\ threads = <<>> /\
    \E parts \in JoinParts : \E delimiter \in JoinDelimiters : Join(parts, delimiter)

TrimString == call = NoCall /\ threads = <<>> /\ \E str \in TrimStrings : Trim(str)

\* The string utilities.
NextStrings == SplitStart \/ SplitIteration \/ SplitReturn \/ JoinCall \/ TrimString

SpecStrings == Init /\ [][NextStrings]_vars

----------------------------------------------------------------------------
(* Properties of the string utilities.                                     *)

\* The parts in order with the delimiter between consecutive parts.
RECURSIVE Interleave(_, _)
Interleave(parts, delimiter) ==
    IF parts = <<>> THEN <<>>
    ELSE IF Len(parts) = 1 THEN parts[1]
    ELSE parts[1] \o delimiter \o Interleave(Tail(parts), delimiter)

\* C11, as stated: join returns the parts in order with the given delimiter
\* between consecutive parts, for every list of parts and every delimiter;
\* the empty list gives the empty string.
C11_Join ==
    call.op = "join" => ret = Returns(Interleave(call.parts, call.delimiter))

\* C11 where it holds: with the delimiter "." or fewer than two parts.
C11_JoinWithDot ==
    (call.op = "join" /\ (call.delimiter = <<".">> \/ Len(call.parts) < 2)) =>
        ret = Returns(Interleave(call.parts, call.delimiter))

\* d occurs in s at the 0-based position p.
OccursAt(s, d, p) == p + Len(d) <= Len(s) /\ SubSeq(s, p + 1, p + Len(d)) = d

Contains(s, d) == \E p \in 0..Len(s) : OccursAt(s, d, p)

\* The positions of the successive left-to-right non-overlapping occurrences
\* of the non-empty d in s from position from on.
RECURSIVE Occurrences(_, _, _)
Occurrences(s, d, from) ==
    LET at == {p \in from..Len(s) : OccursAt(s, d, p)}
    IN  IF at = {} THEN <<>>
        ELSE <<Minimum(at)>> \o Occurrences(s, d, Minimum(at) + Len(d))

\* The segments of s between those occurrences.
Segments(s, d) ==
    LET occ == Occurrences(s, d, 0)
    IN  [i \in 1..(Len(occ) + 1) |->
            SubSeq(s,
                   (IF i = 1 THEN 0 ELSE occ[i - 1] + Len(d)) + 1,
                   IF i = Len(occ) + 1 THEN Len(s) ELSE occ[i])]

\* C14: for a non-empty delimiter split returns the segments between the
\* successive left-to-right non-overlapping occurrences of the delimiter,
\* empty ones included: one part more than there are occurrences, never no
\* part, no part containing the delimiter, the parts interleaved with the
\* delimiter giving back the string; split("", ".") is one empty part and
\* split("a.", ".") is "a" and the empty part.
C14_Split ==
    (call.op = "split" /\ call.delimiter # <<>>) =>
        LET parts == ret.value
        IN  /\ ret.kind = "ok"
            /\ parts = Segments(call.str, call.delimiter)
            /\ Len(parts) = Len(Occurrences(call.str, call.delimiter, 0)) + 1
            /\ parts # <<>>
            /\ \A i \in DOMAIN parts : ~Contains(parts[i], call.delimiter)
            /\ Interleave(parts, call.delimiter) = call.str
            /\ (call.str = <<>> /\ call.delimiter = <<".">>) => parts = << <<>> >>
            /\ (call.str = <<"a", ".">> /\ call.delimiter = <<".">>) => parts = << <<"a">>, <<>> >>

\* C14, witness: a string of dots was split at a delimiter of two dots that
\* occurs in it at overlapping positions; the first part is empty.
C14_Witness ==
    /\ call.op = "split"
    /\ call.str = <<".", ".", ".">>
    /\ call.delimiter = <<".", ".">>
    /\ ret = Returns(<< <<>>, <<".">> >>)

\* C14, the trailing delimiter leaves a trailing empty part.
C14_WitnessTrailing ==
    /\ call.op = "split"
    /\ call.str = <<"a", ".">>
    /\ call.delimiter = <<".">>
    /\ ret = Returns(<< <<"a">>, <<>> >>)

\* The string without its leading and trailing whitespace: from its first to
\* its last character that is not whitespace, empty when there is none.
Trimmed(str) ==
    LET solid == {i \in DOMAIN str : ~isspace(str[i])}
    IN  IF solid = {} THEN <<>>
        ELSE SubSeq(str, Minimum(solid), Maximum(solid))

\* C15, as stated: trim returns the string without its leading and trailing
\* whitespace for every string: inner whitespace is kept, and the empty string
\* and a string of whitespace only give the empty string.
C15_Trim ==
    call.op = "trim" => ret = Returns(Trimmed(call.str))

\* C15 where it holds: the empty string and the strings that hold a character
\* that is not whitespace.
C15_TrimNotBlank ==
    (call.op = "trim" /\ (call.str = <<>> \/ \E i \in DOMAIN call.str : ~isspace(call.str[i]))) =>
        ret = Returns(Trimmed(call.str))

\* C18, as stated: the scan position of split strictly advances on every
\* iteration that does not leave the loop, for every string and every
\* delimiter, the empty one included.
C18_ScanAdvances ==
    [][\A t \in DOMAIN threads :
          (t \in DOMAIN threads' /\ threads[t].pc = "loop" /\ threads'[t].pc = "loop")
              => threads'[t].pos_begin > threads[t].pos_begin]_vars

\* C18, its consequence: split never holds more parts than the length of the
\* string plus one.
C18_PartsBounded ==
    \A t \in DOMAIN threads : Len(threads[t].parts) <= Len(threads[t].str) + 1

\* C18 where it holds: with a non-empty delimiter.
C18_PartsBoundedNonEmptyDelimiter ==
    \A t \in DOMAIN threads :
        threads[t].delimiter # <<>> => Len(threads[t].parts) <= Len(threads[t].str) + 1

----------------------------------------------------------------------------
(* tracing.cpp                                                             *)

\* enum class Level
Trace == 0
Debug == 1
Info == 2
Warn == 3
Error == 4

level_to_string(level) ==
    IF level = Trace THEN Returns(<<"T", "R", "A", "C", "E">>)
    ELSE IF level = Debug THEN Returns(<<"D", "E", "B", "U", "G">>)
    ELSE IF level = Info THEN Returns(<<"I", "N", "F", "O">>)
    ELSE IF level = Warn THEN Returns(<<"W", "A", "R", "N">>)
    ELSE IF level = Error THEN Returns(<<"E", "R", "R", "O", "R">>)
    ELSE Throws(<<"Invalid level">>)

\* std::to_string of a count that is not negative
RECURSIVE to_string(_)
to_string(n) ==
    LET digit == <<"0", "1", "2", "3", "4", "5", "6", "7", "8", "9">>[(n % 10) + 1]
    IN  IF n < 10 THEN <<digit>> ELSE to_string(n \div 10) \o <<digit>>

\* MonotonicClock::format_time, elapsed_us microseconds after construction
format_time(elapsed_us) == to_string(elapsed_us)

\* JSON values: strings, and objects as the sequence of their members
\* <<key, value>> in the order of their keys (the order in which a
\* nlohmann::json object keeps and dumps them).
JString(s) == [type |-> "string", value |-> s]
JObject(members) == [type |-> "object", value |-> members]

\* The characters of a string as they stand between the quotes of a dumped
\* string: quote, backslash and control characters are escaped.
RECURSIVE dump_escaped(_)
dump_escaped(s) ==
    IF s = <<>> THEN <<>>
    ELSE (IF Head(s) = "\"" THEN <<"\\", "\"">>
          ELSE IF Head(s) = "\\" THEN <<"\\", "\\">>
          ELSE IF Head(s) = "\t" THEN <<"\\", "t">>
          ELSE IF Head(s) = "\n" THEN <<"\\", "n">>
          ELSE <<Head(s)>>) \o dump_escaped(Tail(s))

dump_string(s) == <<"\"">> \o dump_escaped(s) \o <<"\"">>

\* nlohmann::json::dump(): the compact text, no whitespace between tokens
RECURSIVE dump(_), dump_members(_)
dump_members(members) ==
    IF members = <<>> THEN <<>>
    ELSE dump_string(Head(members)[1]) \o <<":">> \o dump(Head(members)[2])
         \o (IF Len(members) > 1 THEN <<",">> ELSE <<>>) \o dump_members(Tail(members))

dump(json) ==
    IF json.type = "string" THEN dump_string(json.value)
    ELSE <<"{">> \o dump_members(json.value) \o <<"}">>

\* minify_json: the quote at position i (1-based) flips in_str when it is the
\* first character or does not follow a backslash.
minify_flips(input, i) ==
    input[i] = "\"" /\ (i = 1 \/ input[i - 1] # "\\")

\* The value of in_str when the loop of minify_json reads the character at
\* position i: false at first, flipped by every flipping quote before i.
minify_in_str(input, i) ==
    Cardinality({j \in 1..(i - 1) : minify_flips(input, j)}) % 2 = 1

\* The loop skips the character at position i: a newline, or a space or a tab
\* read while in_str is false.
minify_skips(input, i) ==
    \/ input[i] = "\n"
    \/ (~minify_in_str(input, i) /\ (input[i] = " " \/ input[i] = "\t"))

\* minify_json: the characters the loop streams into ss, in order.
minify_json(input) ==
    LET marked == [i \in DOMAIN input |-> <<input[i], minify_skips(input, i)>>]
        kept == SelectSeq(marked, LAMBDA m : ~m[2])
    IN  [i \in DOMAIN kept |-> kept[i][1]]

\* Subscriber::Subscriber(max_level, thread_ids)
Subscriber(max_level, thread_ids) ==
    [max_level_ |-> max_level, thread_ids_ |-> thread_ids, alive |-> TRUE]

\* The event object Subscriber::handle_event builds: its members in key order
\* ("fields", "level", "target", "threadId", "timestamp").
event_object(sub, target, level, fields, thread_id, elapsed_us) ==
    JObject(<< <<<<"f", "i", "e", "l", "d", "s">>, fields>>,
               <<<<"l", "e", "v", "e", "l">>, JString(level_to_string(level).value)>> >>
            \o (IF target # Nothing
                THEN << <<<<"t", "a", "r", "g", "e", "t">>, JString(target[1])>> >>
                ELSE <<>>)
            \o (IF sub.thread_ids_
                THEN << <<<<"t", "h", "r", "e", "a", "d", "I", "d">>,
                          JString(<<"T", "h", "r", "e", "a", "d", "I", "d", "(">>
                                  \o to_string(thread_id) \o <<")">>)>> >>
                ELSE <<>>)
            \o << <<<<"t", "i", "m", "e", "s", "t", "a", "m", "p">>,
                    JString(format_time(elapsed_us))>> >>)

\* Subscriber::handle_event up to the stringstream ss: nothing for an event
\* below max_level_, else the characters of the line to print.
handle_event(sub, target, level, fields, thread_id, elapsed_us) ==
    IF level < sub.max_level_ THEN Nothing
    ELSE Some(minify_json(dump(event_object(sub, target, level, fields, thread_id, elapsed_us)))
              \o <<"\n">>)

\* Variant: the record and the newline are inserted into std::cout one after
\* the other.
cout_insertions_apart(line) == <<SubSeq(line, 1, Len(line) - 1), <<"\n">>>>

\* The insertions into std::cout that print a line: std::cout << ss.str(),
\* one insertion of the whole line.
cout_insertions(line) == <<line>>

\* std::cout << str: the stream is synchronized with stdio, the characters of
\* one insertion go to the C stream stdout in one locked write.
cout_insert(out, str) == [out EXCEPT !.buffer = @ \o str]

\* std::flush: what stdout holds is written out.
cout_flush(out) == [buffer |-> <<>>, written |-> out.written \o out.buffer]

RECURSIVE cout_insert_all(_, _)
cout_insert_all(out, strs) ==
    IF strs = <<>> THEN out ELSE cout_insert_all(cout_insert(out, Head(strs)), Tail(strs))

\* Length of the string values passed in the fields of an event.
MaxValueLen == 2

\* The values passed: letters, spaces, tabs, quotes and backslashes.
FieldValues == SeqsUpTo({"x", " ", "\t", "\"", "\\"}, MaxValueLen)

\* The fields passed: one or two string fields.
EventFields ==
    {JObject(<< <<<<"a">>, JString(v)>> >>) : v \in FieldValues}
    \cup {JObject(<< <<<<"a">>, JString(v)>>, <<<<"b">>, JString(w)>> >>) : v, w \in FieldValues}

EventTargets == {Nothing, Some(<<"t", " ", "t">>)}
EventLevels == {Debug, Warn}
\* The subscriber of global_subscriber and one that drops events below Info.
Subscribers == {Subscriber(Trace, TRUE), Subscriber(Info, FALSE)}
ElapsedTimes == {7, 15}

\* subscriber.event(target, level, fields...) on a subscriber just constructed,
\* by the one thread of the process
Event(sub, target, level, fields, elapsed_us) ==
    /\ call = NoCall
    /\ threads = <<>>
    /\ subscribers = <<>>
    /\ subscribers' = <<sub>>
    /\ call' = [op |-> "handle_event", target |-> target, level |-> level, fields |-> fields,
                thread_id |-> 1, elapsed_us |-> elapsed_us]
    /\ ret' = Returns(<<>>)
    /\ LET line == handle_event(sub, target, level, fields, 1, elapsed_us)
       IN  stdout' = IF line = Nothing THEN stdout
                     ELSE cout_flush(cout_insert_all(stdout, cout_insertions(line[1])))
    /\ UNCHANGED <<scenarios, groups, root_group_, executed, ctx_calls, cout, cerr>>
    /\ UNCHANGED <<threads, subscriber>>

EmitEvent ==
    call = NoCall /\
    \E sub \in Subscribers : \E target \in EventTargets : \E level \in EventLevels :
    \E fields \in EventFields : \E elapsed_us \in ElapsedTimes :
        Event(sub, target, level, fields, elapsed_us)

\* One event handed to a subscriber.
NextEvent == EmitEvent

SpecEvent == Init /\ [][NextEvent]_vars

----------------------------------------------------------------------------
(* Properties of the line written for an event.                            *)

\* JSON text: the quote at position i opens or closes a string literal when
\* an even number of backslashes stands right before it.
RECURSIVE BackslashesBefore(_, _)
BackslashesBefore(text, i) ==
    IF i = 1 THEN 0
    ELSE IF text[i - 1] # "\\" THEN 0
    ELSE 1 + BackslashesBefore(text, i - 1)

Delimits(text, i) == text[i] = "\"" /\ BackslashesBefore(text, i) % 2 = 0

\* The character at position i stands inside a string literal.
InLiteral(text, i) == Cardinality({j \in 1..(i - 1) : Delimits(text, j)}) % 2 = 1

\* The text without its insignificant whitespace (the whitespace outside
\* string literals).  Two texts that differ by removed characters stand for
\* the same JSON value exactly when they are equal here.
Significant(text) ==
    LET marked == [i \in DOMAIN text |->
                     <<text[i], ~InLiteral(text, i) /\ text[i] \in {" ", "\t", "\n", "\r"}>>]
        kept == SelectSeq(marked, LAMBDA m : ~m[2])
    IN  [i \in DOMAIN kept |-> kept[i][1]]

\* The last call handed an event to the subscriber that was not dropped.
Accepted == call.op = "handle_event" /\ ~(call.level < subscribers[1].max_level_)

\* The serialized event of the last call (json_str of handle_event).
SerializedEvent ==
    dump(event_object(subscribers[1], call.target, call.level, call.fields,
                      call.thread_id, call.elapsed_us))

\* What was written is one line carrying the JSON value of the serialized event.
WrittenAsPassed ==
    LET out == stdout.written
    IN  /\ out # <<>>
        /\ out[Len(out)] = "\n"
        /\ \A i \in 1..(Len(out) - 1) : out[i] # "\n"
        /\ Significant(SubSeq(out, 1, Len(out) - 1)) = Significant(SerializedEvent)

\* C20, as stated: the line written for an accepted event is a single line
\* that parses to the same JSON value as the serialized event, whatever the
\* string values passed hold (spaces, tabs, quotes, a trailing backslash).
C20_LineCarriesValues == Accepted => WrittenAsPassed

\* A passed string value ends with a backslash.
EndsWithBackslash(json) == json.value # <<>> /\ json.value[Len(json.value)] = "\\"

\* C20 where it holds: for the events none of whose field values ends with a
\* backslash.
C20_LineCarriesValuesNoTrailingBackslash ==
    (Accepted /\ \A i \in DOMAIN call.fields.value : ~EndsWithBackslash(call.fields.value[i][2]))
        => WrittenAsPassed

\* An accepted event with a space, a tab and a quote in its values was
\* written as passed.
C20_WitnessKept ==
    /\ Accepted
    /\ call.fields.value[1][2].value = <<" ", "\"">>
    /\ Len(call.fields.value) = 2
    /\ call.fields.value[2][2].value = <<"\t", " ">>
    /\ WrittenAsPassed

----------------------------------------------------------------------------
(* Threads handing events to one subscriber.                               *)

\* Number of threads.
MaxThreads == 2

ThreadIds == 1..MaxThreads

\* A thread that is not inside a call.
IdleThread == [pc |-> "idle", line |-> Nothing, pending |-> <<>>]

\* The fields the threads pass.
ThreadFields ==
    {JObject(<< <<<<"a">>, JString(v)>> >>) : v \in {<<"x">>, <<"y", " ", "z">>}}

\* A subscriber exists before the threads start.
InitEmit ==
    /\ scenarios = <<>>
    /\ groups = <<>>
    /\ root_group_ = Nothing
    /\ call = NoCall
    /\ ret = NoRet
    /\ executed = <<>>
    /\ ctx_calls = <<>>
    /\ cout = <<>>
    /\ cerr = <<>>
    /\ threads = [t \in ThreadIds |-> IdleThread]
    /\ subscriber = Some(1)
    /\ \E sub \in Subscribers : subscribers = <<sub>>
    /\ stdout = NoOutput

\* Thread t calls handle_event and runs it up to the stringstream ss (the
\* part that touches only the thread's own objects): the event is dropped, or
\* its line stands ready to be printed.
HandleEventEnter(t, target, level, fields, elapsed_us) ==
    /\ threads[t].pc = "idle"
    /\ LET line == handle_event(subscribers[subscriber[1]], target, level, fields, t, elapsed_us)
       IN  threads' = [threads EXCEPT ![t] =
                          IF line = Nothing
                          THEN [pc |-> "done", line |-> Nothing, pending |-> <<>>]
                          ELSE [pc |-> "insert", line |-> line,
                                pending |-> cout_insertions(line[1])]]
    /\ UNCHANGED <<scenarios, groups, root_group_, call, ret, executed, ctx_calls, cout, cerr>>
    /\ UNCHANGED <<subscriber, subscribers, stdout>>

\* Thread t makes its next insertion into std::cout.
HandleEventInsert(t) ==
    /\ threads[t].pc = "insert"
    /\ stdout' = cout_insert(stdout, Head(threads[t].pending))
    /\ threads' = [threads EXCEPT ![t].pending = Tail(@),
                                  ![t].pc = IF Len(threads[t].pending) = 1 THEN "flush" ELSE "insert"]
    /\ UNCHANGED <<scenarios, groups, root_group_, call, ret, executed, ctx_calls, cout, cerr>>
    /\ UNCHANGED <<subscriber, subscribers>>

\* Thread t flushes std::cout and returns.
HandleEventFlush(t) ==
    /\ threads[t].pc = "flush"
    /\ stdout' = cout_flush(stdout)
    /\ threads' = [threads EXCEPT ![t].pc = "done"]
    /\ UNCHANGED <<scenarios, groups, root_group_, call, ret, executed, ctx_calls, cout, cerr>>
    /\ UNCHANGED <<subscriber, subscribers>>

Enter ==
    \E t \in ThreadIds : \E level \in EventLevels : \E fields \in ThreadFields :
    \E elapsed_us \in ElapsedTimes :
        HandleEventEnter(t, Nothing, level, fields, elapsed_us)

Insert == \E t \in ThreadIds : HandleEventInsert(t)

Flush == \E t \in ThreadIds : HandleEventFlush(t)

\* Threads emitting events concurrently.
NextEmit == Enter \/ Insert \/ Flush

SpecEmit == InitEmit /\ [][NextEmit]_vars

\* The positions of the newlines of a text, and the line (its newline
\* included) that ends at such a position.
Newlines(text) == {i \in DOMAIN text : text[i] = "\n"}

LineEndingAt(text, p) ==
    LET before == {i \in Newlines(text) : i < p}
    IN  SubSeq(text, (IF before = {} THEN 0 ELSE Maximum(before)) + 1, p)

\* How many lines of the text are the given line.
LineCount(text, line) ==
    Cardinality({p \in Newlines(text) : LineEndingAt(text, p) = line})

\* Thread t has printed the line of an accepted event.
Printed(t) == threads[t].line # Nothing /\ threads[t].pc \in {"flush", "done"}

\* All that went to standard output so far, flushed or not.
Output == stdout.written \o stdout.buffer

----------------------------------------------------------------------------
(* Threads calling global_subscriber.                                      *)

\* Number of calls each thread makes.
MaxCalls == 2

\* A thread outside global_subscriber: the references its calls returned.
Caller(refs) == [pc |-> "idle", made |-> Nothing, refs |-> refs]

\* No call has been made: the static subscriber is initialized with nullptr
\* when the first call reaches its declaration.
InitSingleton ==
    /\ scenarios = <<>>
    /\ groups = <<>>
    /\ root_group_ = Nothing
    /\ call = NoCall
    /\ ret = NoRet
    /\ executed = <<>>
    /\ ctx_calls = <<>>
    /\ cout = <<>>
    /\ cerr = <<>>
    /\ threads = [t \in ThreadIds |-> Caller(<<>>)]
    /\ subscriber = Nothing
    /\ subscribers = <<>>
    /\ stdout = NoOutput

\* Thread t calls global_subscriber() and tests if (!subscriber).
GlobalSubscriberTest(t) ==
    /\ threads[t].pc = "idle"
    /\ Len(threads[t].refs) < MaxCalls
    /\ threads' = [threads EXCEPT ![t].pc = IF subscriber = Nothing THEN "make" ELSE "return"]
    /\ UNCHANGED <<scenarios, groups, root_group_, call, ret, executed, ctx_calls, cout, cerr>>
    /\ UNCHANGED <<subscriber, subscribers, stdout>>

\* std::make_unique<Subscriber>(Level::Trace, kThreadIds)
GlobalSubscriberMake(t) ==
    /\ threads[t].pc = "make"
    /\ subscribers' = Append(subscribers, Subscriber(Trace, TRUE))
    /\ threads' = [threads EXCEPT ![t].pc = "assign", ![t].made = Some(Len(subscribers) + 1)]
    /\ UNCHANGED <<scenarios, groups, root_group_, call, ret, executed, ctx_calls, cout, cerr>>
    /\ UNCHANGED <<subscriber, stdout>>

\* subscriber = (the new object): the unique_ptr takes the new object and
\* deletes the one it held.
GlobalSubscriberAssign(t) ==
    /\ threads[t].pc = "assign"
    /\ subscriber' = threads[t].made
    /\ subscribers' = IF subscriber = Nothing THEN subscribers
                      ELSE [subscribers EXCEPT ![subscriber[1]].alive = FALSE]
    /\ threads' = [threads EXCEPT ![t].pc = "return", ![t].made = Nothing]
    /\ UNCHANGED <<scenarios, groups, root_group_, call, ret, executed, ctx_calls, cout, cerr>>
    /\ UNCHANGED <<stdout>>

\* return *subscriber
GlobalSubscriberReturn(t) ==
    /\ threads[t].pc = "return"
    /\ threads' = [threads EXCEPT ![t] = Caller(Append(threads[t].refs, subscriber[1]))]
    /\ UNCHANGED <<scenarios, groups, root_group_, call, ret, executed, ctx_calls, cout, cerr>>
    /\ UNCHANGED <<subscriber, subscribers, stdout>>

Test == \E t \in ThreadIds : GlobalSubscriberTest(t)

Make == \E t \in ThreadIds : GlobalSubscriberMake(t)

Assign == \E t \in ThreadIds : GlobalSubscriberAssign(t)

Return == \E t \in ThreadIds : GlobalSubscriberReturn(t)

\* Threads calling global_subscriber concurrently.  The test and the
\* assignment are plain accesses to the static unique_ptr with no lock around
\* them, so the steps of the threads interleave freely.
NextSingleton == Test \/ Make \/ Assign \/ Return

SpecSingleton == InitSingleton /\ [][NextSingleton]_vars

\* The references returned so far, by any thread.
Returned == UNION {Range(threads[t].refs) : t \in DOMAIN threads}

\* C19, as stated: in every interleaving of the threads' calls one Subscriber
\* at most is ever constructed, every call returns a reference to the same
\* instance, and no returned reference refers to a Subscriber that has been
\* destroyed or replaced.
C19_Singleton ==
    (DOMAIN threads = ThreadIds /\ stdout = NoOutput) =>
        /\ Len(subscribers) <= 1
        /\ Cardinality(Returned) <= 1
        /\ \A r \in Returned : subscribers[r].alive /\ subscriber = Some(r)

\* C19 where it holds: while no call has overlapped another (one Subscriber
\* constructed so far).
C19_SingletonWithoutOverlap ==
    (DOMAIN threads = ThreadIds /\ stdout = NoOutput /\ Len(subscribers) <= 1) =>
        /\ Cardinality(Returned) <= 1
        /\ \A r \in Returned : subscribers[r].alive /\ subscriber = Some(r)

\* A thread holds a reference to a Subscriber that another thread's
\* assignment has destroyed.
C19_WitnessDangling ==
    /\ DOMAIN threads = ThreadIds
    /\ \E r \in Returned : ~subscribers[r].alive

====
